---- MODULE Spec2Model ----
\* Annotation-aggregation pipeline of aerialseg (src/aerialseg/utils.py) as
\* driven by src/scripts/prediction_batch_detectron2.py:
\*   polygon_prep -> extract_output_annotations -> extract_tile_annotations_df
\*   -> extract_all_annotations_df -> assemble_coco_json
EXTENDS Integers, Sequences, FiniteSets, TLC

\* ---------------------------------------------------------------- bounds
MaxImages == 3          \* longest images_list explored
MaxClassId == 2         \* class ids a CategoryMapping may name are 0..MaxClassId
MaxShift == 2           \* direct polygon_prep calls: contours translated by 0..MaxShift

\* ---------------------------------------------------------------- values
\* Python values whose type matters to str(): a str or an int.
PyS(s) == [t |-> "str", s |-> s, n |-> 0]
PyI(n) == [t |-> "int", s |-> "", n |-> n]
\* the keyword argument was not passed: the callee's own default applies
NotPassed == [t |-> "notpassed", s |-> "", n |-> 0]

Digits == <<"0", "1", "2", "3", "4", "5", "6", "7", "8", "9">>

RECURSIVE IntToStr(_)
IntToStr(n) ==
    IF n < 10 THEN Digits[n + 1]
    ELSE IntToStr(n \div 10) \o Digits[(n % 10) + 1]

\* str(v): a str is returned unchanged, an int becomes its decimal digits
PyStr(v) == IF v.t = "int" THEN PyS(IntToStr(v.n)) ELSE v

\* ---------------------------------------------------------------- geometry
\* A contour is a sequence of <<x, y>> pixel points (an (N, 2) array).
Square    == << <<0, 0>>, <<4, 0>>, <<4, 4>>, <<0, 4>> >>
Triangle  == << <<0, 0>>, <<4, 0>>, <<0, 4>> >>
SquareMid == << <<0, 0>>, <<2, 0>>, <<4, 0>>, <<4, 4>>, <<0, 4>> >>
Segment   == << <<0, 0>>, <<4, 0>> >>
Dot       == << <<0, 0>> >>

Shift(c, dx, dy) == [k \in 1..Len(c) |-> <<c[k][1] + dx, c[k][2] + dy>>]

\* simplify_tolerance in tenths of a pixel: -0.1, 0.0, 0.2, 1.5
Tolerances == {-1, 0, 2, 15}

Sq(x) == x * x
Len2(a, b) == Sq(b[1] - a[1]) + Sq(b[2] - a[2])

\* squared distance from p to the segment a-b, as a fraction n/d
SegDist2(p, a, b) ==
    LET len2 == Len2(a, b)
        dot  == (p[1] - a[1]) * (b[1] - a[1]) + (p[2] - a[2]) * (b[2] - a[2])
        crs  == (p[1] - a[1]) * (b[2] - a[2]) - (p[2] - a[2]) * (b[1] - a[1])
    IN  IF len2 = 0 \/ dot <= 0 THEN [n |-> Len2(a, p), d |-> 1]
        ELSE IF dot >= len2 THEN [n |-> Len2(b, p), d |-> 1]
        ELSE [n |-> Sq(crs), d |-> len2]

FracGT(f, g) == f.n * g.d > g.n * f.d
ExceedsTol(f, tol) == f.n * 100 > tol * tol * f.d

\* first index strictly between i and j that is farthest from segment i-j
Farthest(ring, i, j) ==
    LET D(k) == SegDist2(ring[k], ring[i], ring[j])
    IN  CHOOSE m \in (i + 1)..(j - 1) :
            /\ \A k \in (i + 1)..(j - 1) : ~FracGT(D(k), D(m))
            /\ \A k \in (i + 1)..(m - 1) : FracGT(D(m), D(k))

\* Douglas-Peucker: indices strictly between i and j that are kept
RECURSIVE DPKeep(_, _, _, _)
DPKeep(ring, i, j, tol) ==
    IF j <= i + 1 THEN {}
    ELSE LET m == Farthest(ring, i, j)
         IN  IF ExceedsTol(SegDist2(ring[m], ring[i], ring[j]), tol)
             THEN {m} \cup DPKeep(ring, i, m, tol) \cup DPKeep(ring, m, j, tol)
             ELSE {}

\* the elements of s at the indices in keep, in order
SubSeqAt(s, keep) ==
    [k \in 1..Cardinality(keep) |->
        s[CHOOSE x \in keep : Cardinality({y \in keep : y <= x}) = k]]

\* shapely Polygon(shell): the shell is closed into a ring (first point repeated)
ClosedRing(pts) ==
    IF Len(pts) > 0 /\ pts[Len(pts)] # pts[1] THEN Append(pts, pts[1]) ELSE pts

\* Polygon(shell).simplify(tol).exterior.coords
SimplifiedExterior(pts, tol) ==
    LET ring == ClosedRing(pts)
    IN  SubSeqAt(ring, {1, Len(ring)} \cup DPKeep(ring, 1, Len(ring), tol))

\* ndarray.flatten().tolist(): x and y interleaved in one list
Flatten(poly) ==
    [k \in 1..(2 * Len(poly)) |-> poly[(k + 1) \div 2][IF k % 2 = 1 THEN 1 ELSE 2]]

\* variant: the simplification branch is also taken for tolerance 0
polygon_prep_from_zero(polygon, simplify_tolerance) ==
    LET warned == Len(polygon) < 3
    IN  IF simplify_tolerance >= 0
        THEN IF Len(polygon) \in {1, 2}
             THEN [raised |-> TRUE, warned |-> warned, polygon |-> polygon]
             ELSE [raised |-> FALSE, warned |-> warned,
                   polygon |-> SimplifiedExterior(polygon, simplify_tolerance)]
        ELSE [raised |-> FALSE, warned |-> warned, polygon |-> polygon]

\* polygon_prep: the value returned, whether it warned, whether it raised
polygon_prep(polygon, simplify_tolerance) ==
    LET warned == Len(polygon) < 3
    IN  IF simplify_tolerance > 0
        THEN IF Len(polygon) \in {1, 2}
             THEN [raised |-> TRUE, warned |-> warned, polygon |-> polygon]
             ELSE [raised |-> FALSE, warned |-> warned,
                   polygon |-> SimplifiedExterior(polygon, simplify_tolerance)]
        ELSE [raised |-> FALSE, warned |-> warned, polygon |-> polygon]

\* ---------------------------------------------------------------- density
\* footprint_ratio values in tenths: -0.1, 0.0, 0.5, 1.0, 1.1
Ratios == {-1, 0, 5, 10, 11}

\* density_estimate_combined_area: the assertion on footprint_ratio comes
\* before the two densities are computed; the result is kept as 20 times the
\* density so that it stays an integer
density_estimate_combined_area(footprint_ratio, density_area, density_number) ==
    IF footprint_ratio >= 0 /\ footprint_ratio <= 10
    THEN [raised |-> FALSE, computed |-> TRUE,
          density |-> density_area * footprint_ratio
                          + density_number * (10 - footprint_ratio)]
    ELSE [raised |-> TRUE, computed |-> FALSE, density |-> 0]

\* ---------------------------------------------------------------- the model capability
\* One detected instance: its mask (represented by the regions the tracer
\* finds in it), its class id and its box.
Inst(class, regions) == [mask |-> [regions |-> regions], class |-> class,
                         box |-> <<0, 0, 4 * Len(regions), 4>>]

\* output["instances"]: three parallel arrays indexed by instance
Instances(insts) ==
    [pred_masks   |-> [k \in 1..Len(insts) |-> insts[k].mask],
     pred_classes |-> [k \in 1..Len(insts) |-> insts[k].class],
     pred_boxes   |-> [k \in 1..Len(insts) |-> insts[k].box]]

\* images cv2.imread cannot read (it returns None, on which the predictor
\* raises) and images on which the model itself raises
Unreadable == {"missing.png"}
ModelFails == {"huge.png"}

Paths == {"none.png", "blank.png", "house.png", "pair.png", "split.png"}
             \cup Unreadable \cup ModelFails

\* predictor(cv2.imread(path)): the same image always gives the same output
Predictor(path) ==
    CASE path = "none.png"  -> Instances(<< >>)
      [] path = "blank.png" -> Instances(<< Inst(1, << >>) >>)
      [] path = "house.png" -> Instances(<< Inst(0, << Square >>) >>)
      [] path = "pair.png"  -> Instances(<< Inst(2, << Triangle >>),
                                            Inst(1, << Shift(SquareMid, 6, 0) >>) >>)
      [] path = "split.png" -> Instances(<< Inst(1, << Square, Shift(Triangle, 6, 6) >>),
                                            Inst(0, << >>),
                                            Inst(0, << Shift(SquareMid, 0, 6) >>) >>)

\* variant: only the first traced region is returned
mask_to_polygons_first(mask) ==
    IF Len(mask.regions) > 0 THEN << mask.regions[1] >> ELSE << >>

\* sv.mask_to_polygons(mask): one contour per traced region, in tracing
\* order (supervision itself drops contours of fewer than 3 points, so no
\* mask of the catalogue has one)
mask_to_polygons(mask) == mask.regions

\* ---------------------------------------------------------------- pandas
\* variant: image ids counted from one
DataFrame_one_based(polygons, image_id, labels) ==
    [k \in 1..Len(polygons) |->
        [index |-> k - 1, pixel_polygon |-> polygons[k],
         image_id |-> image_id + 1, class_id |-> labels[k]]]

\* pd.DataFrame({"pixel_polygon": polygons, "image_id": image_id,
\*               "class_id": labels}): one row per list position, default
\* RangeIndex 0..len-1, the scalar image_id broadcast to every row
DataFrame(polygons, image_id, labels) ==
    [k \in 1..Len(polygons) |->
        [index |-> k - 1, pixel_polygon |-> polygons[k],
         image_id |-> image_id, class_id |-> labels[k]]]

\* variant: the last frame's rows come first
RECURSIVE pd_concat_reversed(_)
pd_concat_reversed(frames) ==
    IF Len(frames) = 0 THEN << >>
    ELSE frames[Len(frames)] \o pd_concat_reversed(SubSeq(frames, 1, Len(frames) - 1))

\* pd.concat(frames): rows of the frames in list order, each keeping its index
RECURSIVE pd_concat(_)
pd_concat(frames) ==
    IF Len(frames) = 0 THEN << >>
    ELSE pd_concat(SubSeq(frames, 1, Len(frames) - 1)) \o frames[Len(frames)]

\* df.reset_index(drop=True): the index becomes 0..n-1 in row order
reset_index_drop(df) == [k \in 1..Len(df) |-> [df[k] EXCEPT !.index = k - 1]]

\* df.reset_index() followed by the renaming of the four columns: the index
\* becomes the first column, named annot_id
reset_index_rename(df) ==
    [k \in 1..Len(df) |->
        [annot_id |-> df[k].index, pixel_polygon |-> df[k].pixel_polygon,
         image_id |-> df[k].image_id, class_id |-> df[k].class_id]]

\* the ascending sequence of the elements of a finite set of integers
SortedSeq(S) ==
    [k \in 1..Cardinality(S) |->
        CHOOSE x \in S : Cardinality({y \in S : y <= x}) = k]

\* variant: groupby(..., sort=False), keys in order of first appearance
RECURSIVE group_keys_unsorted(_)
group_keys_unsorted(annotations) ==
    IF Len(annotations) = 0 THEN << >>
    ELSE LET before == group_keys_unsorted(SubSeq(annotations, 1, Len(annotations) - 1))
             c == annotations[Len(annotations)].class_id
         IN  IF \E k \in 1..Len(before) : before[k] = c THEN before ELSE Append(before, c)

\* annotations.groupby("class_id").groups.keys(): the distinct class ids,
\* sorted ascending (groupby sorts the group keys by default)
group_keys(annotations) ==
    SortedSeq({annotations[k].class_id : k \in 1..Len(annotations)})

\* coco.make_category(class_name=..., class_id=..., supercategory=...)
make_category(class_name, class_id, supercategory) ==
    [id |-> class_id, name |-> class_name, supercategory |-> supercategory]

\* ---------------------------------------------------------------- inputs
RECURSIVE SeqsUpTo(_, _)
SeqsUpTo(S, n) ==
    IF n = 0 THEN {<< >>}
    ELSE LET shorter == SeqsUpTo(S, n - 1)
         IN  shorter \cup {Append(q, x) : q \in {r \in shorter : Len(r) = n - 1}, x \in S}

ImageLists == SeqsUpTo(Paths, MaxImages)

ClassIds == 0..MaxClassId

\* what a caller's dict gives for one class id
CategoryEntries == [name : {PyS("roof"), PyI(7)}, supercategory : {PyS("building")}]

NoMap == [c \in {} |-> c]

\* the categories argument: None, or a dict keyed by class id
CategoryMappings ==
    {[given |-> FALSE, map |-> NoMap]} \cup
    {[given |-> TRUE, map |-> m] :
        m \in UNION {[D -> CategoryEntries] : D \in SUBSET ClassIds}}

\* contours handed to polygon_prep by a direct caller
PrepContours ==
    {Shift(c, dx, dy) : c \in {Square, Triangle, SquareMid, Segment, Dot},
                        dx \in 0..MaxShift, dy \in 0..MaxShift}

\* ---------------------------------------------------------------- state
VARIABLES
    pc,                 \* where the running call stands
    images_list,        \* argument of extract_all_annotations_df
    simplify_tolerance, \* argument, in tenths
    flatten,            \* the flatten setting the caller wants
    image_index,        \* enumerate() position of the image in hand (0-based)
    output,             \* predictor output of the image in hand
    flatten_arg,        \* flatten parameter of the running extract_output_annotations
    i,                  \* instance loop index of extract_output_annotations (0-based)
    mask_arrays, polygons, bbox_list, labels_list,
    all_annotations,    \* list of per-image frames, then the aggregated table
    categories,         \* argument of assemble_coco_json
    coco_json,          \* result of assemble_coco_json
    error,              \* exception that ended the call, or "none"
    warnings_log,       \* warnings.warn calls, in order
    invocations,        \* image paths the predictor was invoked on, in order
    emit_log,           \* history: origin of every polygon appended, in order
    polygon_arg,        \* argument of a direct polygon_prep call
    prep_result,        \* value returned by a direct polygon_prep call
    columns,            \* column names of the aggregated table
    predictor_built,    \* a DefaultPredictor exists
    run,                \* which call of extract_all_annotations_df on these inputs
    previous            \* table and columns returned by the call before

vars == <<pc, images_list, simplify_tolerance, flatten, image_index, output,
          flatten_arg, i, mask_arrays, polygons, bbox_list, labels_list,
          all_annotations, categories, coco_json, error, warnings_log,
          invocations, emit_log, polygon_arg, prep_result, columns,
          predictor_built, run, previous>>

NoOutput == Instances(<< >>)
NoCoco == [images |-> << >>, annotations |-> << >>, categories |-> << >>,
           license |-> "", info |-> "", type |-> ""]
NoTable == [rows |-> << >>, columns |-> << >>]

Inert ==
    /\ image_index = 0
    /\ output = NoOutput
    /\ flatten_arg = FALSE
    /\ i = 0
    /\ mask_arrays = << >> /\ polygons = << >>
    /\ bbox_list = << >> /\ labels_list = << >>
    /\ all_annotations = << >>
    /\ categories = [given |-> FALSE, map |-> NoMap]
    /\ coco_json = NoCoco
    /\ error = "none"
    /\ warnings_log = << >>
    /\ invocations = << >>
    /\ emit_log = << >>
    /\ prep_result = << >>
    /\ columns = << >>
    /\ run = 1
    /\ previous = NoTable

Distinct(q) == \A j, k \in 1..Len(q) : j # k => q[j] # q[k]

\* either the batch script has globbed its images (distinct paths) and is
\* about to check them, or a caller that holds a predictor has just called
\* extract_all_annotations_df
Init ==
    /\ pc \in {"main", "loop"}
    /\ images_list \in ImageLists
    /\ pc = "main" => Distinct(images_list)
    /\ predictor_built = (pc = "loop")
    /\ simplify_tolerance \in Tolerances
    /\ flatten \in BOOLEAN
    /\ polygon_arg = << >>
    /\ Inert

\* ---------------------------------------------------------------- actions
pipeline_vars == <<images_list, simplify_tolerance, flatten, polygon_arg,
                   prep_result, predictor_built, run, previous>>

\* main: the glob result is asserted non-empty, then the predictor is built
MainStart ==
    /\ pc = "main"
    /\ IF Len(images_list) > 0
       THEN /\ predictor_built' = TRUE
            /\ pc' = "loop"
            /\ UNCHANGED error
       ELSE /\ pc' = "raised"
            /\ error' = "AssertionError"
            /\ UNCHANGED predictor_built
    /\ UNCHANGED <<images_list, simplify_tolerance, flatten, image_index, output,
                   flatten_arg, i, mask_arrays, polygons, bbox_list, labels_list,
                   all_annotations, categories, coco_json, warnings_log,
                   invocations, emit_log, polygon_arg, prep_result, columns,
                   run, previous>>

\* the exception a tile call ends in, or "none"
tile_failure(path) ==
    IF path \in Unreadable THEN "ImageReadFailure"
    ELSE IF path \in ModelFails THEN "ModelInvocationFailure"
    ELSE "none"

\* variant: the four lists of extract_output_annotations outlive the call
TileCall_keep_lists ==
    /\ pc = "loop"
    /\ image_index < Len(images_list)
    /\ invocations' = Append(invocations, images_list[image_index + 1])
    /\ IF tile_failure(images_list[image_index + 1]) # "none"
       THEN /\ pc' = "raised"
            /\ error' = tile_failure(images_list[image_index + 1])
            /\ UNCHANGED <<output, flatten_arg, i>>
       ELSE /\ output' = Predictor(images_list[image_index + 1])
            /\ flatten_arg' = FALSE
            /\ i' = 0
            /\ pc' = "instances"
            /\ UNCHANGED error
    /\ UNCHANGED <<mask_arrays, polygons, bbox_list, labels_list>>
    /\ UNCHANGED <<image_index, all_annotations, categories, coco_json,
                   warnings_log, emit_log, columns>>
    /\ UNCHANGED pipeline_vars

\* variant: a failing image is caught and counted as an image without rows
TileCall_catch ==
    /\ pc = "loop"
    /\ image_index < Len(images_list)
    /\ invocations' = Append(invocations, images_list[image_index + 1])
    /\ IF tile_failure(images_list[image_index + 1]) # "none"
       THEN /\ all_annotations' = Append(all_annotations, << >>)
            /\ image_index' = image_index + 1
            /\ UNCHANGED <<pc, output, flatten_arg, i, mask_arrays, polygons,
                           bbox_list, labels_list>>
       ELSE /\ output' = Predictor(images_list[image_index + 1])
            /\ flatten_arg' = FALSE
            /\ i' = 0
            /\ mask_arrays' = << >> /\ polygons' = << >>
            /\ bbox_list' = << >> /\ labels_list' = << >>
            /\ pc' = "instances"
            /\ UNCHANGED <<image_index, all_annotations>>
    /\ UNCHANGED <<categories, coco_json, error, warnings_log, emit_log, columns>>
    /\ UNCHANGED pipeline_vars

\* extract_all_annotations_df takes the next image and calls
\* extract_tile_annotations_df: the image is read, the predictor invoked, and
\* extract_output_annotations entered with its flatten parameter defaulted
TileCall ==
    /\ pc = "loop"
    /\ image_index < Len(images_list)
    /\ invocations' = Append(invocations, images_list[image_index + 1])
    /\ IF tile_failure(images_list[image_index + 1]) # "none"
       THEN /\ pc' = "raised"
            /\ error' = tile_failure(images_list[image_index + 1])
            /\ UNCHANGED <<output, flatten_arg, i, mask_arrays, polygons,
                           bbox_list, labels_list>>
       ELSE /\ output' = Predictor(images_list[image_index + 1])
            /\ flatten_arg' = FALSE
            /\ i' = 0
            /\ mask_arrays' = << >> /\ polygons' = << >>
            /\ bbox_list' = << >> /\ labels_list' = << >>
            /\ pc' = "instances"
            /\ UNCHANGED error
    /\ UNCHANGED <<image_index, all_annotations, categories, coco_json,
                   warnings_log, emit_log, columns>>
    /\ UNCHANGED pipeline_vars

\* the polygon stored for one prepared contour
stored_polygon(polygon, flat) == IF flat THEN Flatten(polygon) ELSE polygon

\* variant: the empty case is not told apart
has_polygons_always(polygon_sv) == TRUE

\* len(polygon_sv) > 0: the mask traced to at least one polygon
has_polygons(polygon_sv) == Len(polygon_sv) > 0

\* variant: the label is appended once per instance, outside the polygon loop
instance_labels_once(n, label) == << label >>

\* labels_list.append(labels[i]) for each of the n polygons of the instance
instance_labels(n, label) == [c \in 1..n |-> label]

\* one iteration of the instance loop of extract_output_annotations
InstanceStep ==
    /\ pc = "instances"
    /\ i < Len(output.pred_masks)
    /\ LET mask_array_instance == output.pred_masks[i + 1]
           polygon_sv == mask_to_polygons(mask_array_instance)
           n    == Len(polygon_sv)
           prep == [c \in 1..n |-> polygon_prep(polygon_sv[c], simplify_tolerance)]
           stop == IF \E c \in 1..n : prep[c].raised
                   THEN CHOOSE c \in 1..n :
                            prep[c].raised /\ \A b \in 1..(c - 1) : ~prep[b].raised
                   ELSE n
           warned == SelectSeq([c \in 1..stop |-> c], LAMBDA c : prep[c].warned)
           degenerate == [k \in 1..Len(warned) |->
                             [kind |-> "degenerate", image |-> image_index, inst |-> i]]
       IN  IF has_polygons(polygon_sv)
           THEN IF \E c \in 1..n : prep[c].raised
                THEN /\ pc' = "raised"
                     /\ error' = "ValueError"
                     /\ warnings_log' = warnings_log \o degenerate
                     /\ UNCHANGED <<i, mask_arrays, polygons, bbox_list,
                                    labels_list, emit_log>>
                ELSE /\ mask_arrays' = mask_arrays \o [c \in 1..n |-> mask_array_instance]
                     /\ labels_list' = labels_list \o
                            instance_labels(n, output.pred_classes[i + 1])
                     /\ bbox_list' = bbox_list \o [c \in 1..n |-> output.pred_boxes[i + 1]]
                     /\ polygons' = polygons \o
                            [c \in 1..n |-> stored_polygon(prep[c].polygon, flatten_arg)]
                     /\ emit_log' = emit_log \o
                            [c \in 1..n |-> [image |-> image_index, inst |-> i, contour |-> c]]
                     /\ warnings_log' = warnings_log \o degenerate
                     /\ i' = i + 1
                     /\ UNCHANGED <<pc, error>>
           ELSE /\ warnings_log' = Append(warnings_log,
                        [kind |-> "empty", image |-> image_index, inst |-> i])
                /\ i' = i + 1
                /\ UNCHANGED <<pc, error, mask_arrays, polygons, bbox_list,
                               labels_list, emit_log>>
    /\ UNCHANGED <<image_index, output, flatten_arg, all_annotations, categories,
                   coco_json, invocations, columns>>
    /\ UNCHANGED pipeline_vars

\* variant: the frame is built and appended before the instance loop is over
TileReturn_partial ==
    /\ pc = "instances"
    /\ i <= Len(output.pred_masks)
    /\ all_annotations' = Append(all_annotations,
                                 DataFrame(polygons, image_index, labels_list))
    /\ image_index' = image_index + 1
    /\ pc' = "loop"
    /\ UNCHANGED <<output, flatten_arg, i, mask_arrays, polygons, bbox_list,
                   labels_list, categories, coco_json, error, warnings_log,
                   invocations, emit_log, columns>>
    /\ UNCHANGED pipeline_vars

\* extract_output_annotations returns; extract_tile_annotations_df builds the
\* frame of the image and extract_all_annotations_df appends it
TileReturn ==
    /\ pc = "instances"
    /\ i = Len(output.pred_masks)
    /\ all_annotations' = Append(all_annotations,
                                 DataFrame(polygons, image_index, labels_list))
    /\ image_index' = image_index + 1
    /\ pc' = "loop"
    /\ UNCHANGED <<output, flatten_arg, i, mask_arrays, polygons, bbox_list,
                   labels_list, categories, coco_json, error, warnings_log,
                   invocations, emit_log, columns>>
    /\ UNCHANGED pipeline_vars

\* variant: the concatenated frames keep their per-image index
aggregate_keep_index(frames) == reset_index_rename(pd_concat(frames))

\* the table extract_all_annotations_df makes of the collected frames
aggregate(frames) == reset_index_rename(reset_index_drop(pd_concat(frames)))

\* columns of a per-image frame, in the order of the dict given to DataFrame
frame_columns == <<"pixel_polygon", "image_id", "class_id">>

\* variant: the second reset_index also drops the index
aggregate_columns_dropped == frame_columns

\* reset_index() puts the old index first, as column "index"; the four
\* names assigned afterwards replace the names position by position
aggregate_columns ==
    LET after_reset == <<"index">> \o frame_columns
        names == <<"annot_id", "pixel_polygon", "image_id", "class_id">>
    IN  [k \in 1..Len(after_reset) |-> names[k]]

\* after the last image: concatenation and annot_id assignment
Concat ==
    /\ pc = "loop"
    /\ image_index = Len(images_list)
    /\ IF Len(all_annotations) = 0
       THEN /\ pc' = "raised"
            /\ error' = "ValueError"
            /\ UNCHANGED <<all_annotations, columns>>
       ELSE /\ pc' = "returned"
            /\ all_annotations' = aggregate(all_annotations)
            /\ columns' = aggregate_columns
            /\ UNCHANGED error
    /\ UNCHANGED <<image_index, output, flatten_arg, i, mask_arrays, polygons,
                   bbox_list, labels_list, categories, coco_json, warnings_log,
                   invocations, emit_log>>
    /\ UNCHANGED pipeline_vars

\* variant: the mapping's name is taken as it is, without str()
coco_categories_raw_name(annotations, cats) ==
    LET keys == group_keys(annotations)
    IN  IF cats.given
        THEN [k \in 1..Len(keys) |->
                 make_category(cats.map[keys[k]].name, keys[k],
                               cats.map[keys[k]].supercategory)]
        ELSE [k \in 1..Len(keys) |->
                 make_category(PyStr(PyI(keys[k])), keys[k], NotPassed)]

\* the categories list assemble_coco_json builds for a table and a mapping
\* whose keys cover the table's class ids
coco_categories(annotations, cats) ==
    LET keys == group_keys(annotations)
    IN  IF cats.given
        THEN [k \in 1..Len(keys) |->
                 make_category(PyStr(cats.map[keys[k]].name), keys[k],
                               cats.map[keys[k]].supercategory)]
        ELSE [k \in 1..Len(keys) |->
                 make_category(PyStr(PyI(keys[k])), keys[k], NotPassed)]

\* dict lookup categories[cat] raises KeyError for a class id it does not hold
lookup_fails(annotations, cats) ==
    /\ cats.given
    /\ \E k \in 1..Len(annotations) : annotations[k].class_id \notin DOMAIN cats.map

\* coco.create_coco_images_object_png(images).images: one descriptor per
\* path, in input order, its id the 0-based position
create_coco_images_object_png(images) ==
    [k \in 1..Len(images) |-> [id |-> k - 1, file_name |-> images[k]]]

\* coco.coco_polygon_annotations(annotations): one record per table row
coco_polygon_annotations(annotations) ==
    [k \in 1..Len(annotations) |->
        [id |-> annotations[k].annot_id, image_id |-> annotations[k].image_id,
         category_id |-> annotations[k].class_id,
         segmentation |-> annotations[k].pixel_polygon]]

\* assemble_coco_json(all_annotations, images, categories=...)
Assemble ==
    /\ pc = "returned"
    /\ \E cats \in CategoryMappings :
        /\ categories' = cats
        /\ IF lookup_fails(all_annotations, cats)
           THEN /\ pc' = "raised"
                /\ error' = "KeyError"
                /\ UNCHANGED coco_json
           ELSE /\ pc' = "assembled"
                /\ coco_json' = [images |-> create_coco_images_object_png(images_list),
                                 annotations |-> coco_polygon_annotations(all_annotations),
                                 categories |-> coco_categories(all_annotations, cats),
                                 license |-> "", info |-> "", type |-> "instances"]
                /\ UNCHANGED error
    /\ UNCHANGED <<image_index, output, flatten_arg, i, mask_arrays, polygons,
                   bbox_list, labels_list, all_annotations, warnings_log,
                   invocations, emit_log, columns>>
    /\ UNCHANGED pipeline_vars

Next == MainStart \/ TileCall \/ InstanceStep \/ TileReturn \/ Concat \/ Assemble

Spec == Init /\ [][Next]_vars

\* ---------------------------------------------------------------- the same call made twice
\* the caller keeps the table it got and calls extract_all_annotations_df
\* again with the same arguments; the new call starts with fresh locals
CallAgain ==
    /\ pc = "returned"
    /\ run = 1
    /\ previous' = [rows |-> all_annotations, columns |-> columns]
    /\ run' = 2
    /\ pc' = "loop"
    /\ image_index' = 0
    /\ all_annotations' = << >>
    /\ columns' = << >>
    /\ warnings_log' = << >>
    /\ invocations' = << >>
    /\ emit_log' = << >>
    /\ UNCHANGED <<images_list, simplify_tolerance, flatten, output, flatten_arg,
                   i, mask_arrays, polygons, bbox_list, labels_list, categories,
                   coco_json, error, polygon_arg, prep_result, predictor_built>>

InitRepeat == Init /\ pc = "loop"

NextRepeat == TileCall \/ InstanceStep \/ TileReturn \/ Concat \/ CallAgain

SpecRepeat == InitRepeat /\ [][NextRepeat]_vars

\* ---------------------------------------------------------------- direct calls of polygon_prep
InitPrep ==
    /\ pc = "prep_call"
    /\ images_list = << >>
    /\ simplify_tolerance \in Tolerances
    /\ flatten = FALSE
    /\ polygon_arg \in PrepContours
    /\ predictor_built = FALSE
    /\ Inert

PolygonPrepCall ==
    /\ pc = "prep_call"
    /\ LET r == polygon_prep(polygon_arg, simplify_tolerance)
       IN  /\ warnings_log' = IF r.warned
                              THEN Append(warnings_log,
                                     [kind |-> "degenerate", image |-> 0, inst |-> 0])
                              ELSE warnings_log
           /\ IF r.raised
              THEN /\ pc' = "prep_raised"
                   /\ error' = "ValueError"
                   /\ UNCHANGED prep_result
              ELSE /\ pc' = "prep_returned"
                   /\ prep_result' = r.polygon
                   /\ UNCHANGED error
    /\ UNCHANGED <<images_list, simplify_tolerance, flatten, polygon_arg,
                   image_index, output, flatten_arg, i, mask_arrays, polygons,
                   bbox_list, labels_list, all_annotations, categories,
                   coco_json, invocations, emit_log, columns, predictor_built,
                   run, previous>>

NextPrep == PolygonPrepCall

SpecPrep == InitPrep /\ [][NextPrep]_vars

\* ---------------------------------------------------------------- all entry points
InitBoth == Init \/ InitPrep

NextBoth == Next \/ NextPrep

SpecBoth == InitBoth /\ [][NextBoth]_vars

\* ---------------------------------------------------------------- properties
\* extract_all_annotations_df has just returned its table (held in
\* all_annotations; assemble_coco_json does not change it)
Returned == pc = "returned"

\* the raw detection an emitted polygon came from
OriginInstances(e) == Predictor(images_list[e.image + 1])
OriginContour(e) == OriginInstances(e).pred_masks[e.inst + 1].regions[e.contour]
OriginClass(e) == OriginInstances(e).pred_classes[e.inst + 1]

\* positions (0-based) of the images processed so far and of their instances
RegionsOf(p, q) == Predictor(images_list[p + 1]).pred_masks[q + 1].regions
InstancesOf(p) == 0..(Len(Predictor(images_list[p + 1]).pred_masks) - 1)
ImagePositions == 0..(Len(images_list) - 1)

\* table rows (1-based positions) that came from instance q of image p
RowsFrom(p, q) ==
    {j \in 1..Len(emit_log) : emit_log[j].image = p /\ emit_log[j].inst = q}

\* C1: the annot_id values of the returned table are exactly 0..n-1, each
\* once, n being the number of rows emitted over all images
C1_AnnotIdsContiguous ==
    (Returned /\ Len(images_list) > 0) =>
        LET n == Len(all_annotations)
        IN  /\ n = Len(emit_log)
            /\ {all_annotations[k].annot_id : k \in 1..n} = 0..(n - 1)
            /\ \A j, k \in 1..n :
                   j # k => all_annotations[j].annot_id # all_annotations[k].annot_id

\* rows of two different images, one of them with more than one row
C1_Witness ==
    /\ Returned
    /\ Len(all_annotations) >= 3
    /\ \E j, k \in 1..Len(all_annotations) :
           all_annotations[j].image_id # all_annotations[k].image_id

\* C2: the j-th row of the table is the j-th polygon emitted (images in list
\* order, within an image in emission order) and its annot_id is j-1
C2_RowsInEmissionOrder ==
    Returned =>
        /\ Len(all_annotations) = Len(emit_log)
        /\ \A j \in 1..Len(all_annotations) :
               /\ all_annotations[j].annot_id = j - 1
               /\ all_annotations[j].class_id = OriginClass(emit_log[j])
               /\ all_annotations[j].pixel_polygon =
                      stored_polygon(polygon_prep(OriginContour(emit_log[j]),
                                                  simplify_tolerance).polygon,
                                     flatten_arg)
        /\ \A j, k \in 1..Len(emit_log) :
               j < k =>
                   \/ emit_log[j].image < emit_log[k].image
                   \/ /\ emit_log[j].image = emit_log[k].image
                      /\ \/ emit_log[j].inst < emit_log[k].inst
                         \/ /\ emit_log[j].inst = emit_log[k].inst
                            /\ emit_log[j].contour < emit_log[k].contour

\* two images with different rows contribute, the first of them two rows
C2_Witness ==
    /\ pc = "returned"
    /\ Len(images_list) >= 2
    /\ \E j \in 1..(Len(all_annotations) - 2) :
           /\ all_annotations[j].image_id = all_annotations[j + 1].image_id
           /\ all_annotations[j + 1].image_id < all_annotations[j + 2].image_id
           /\ all_annotations[j].pixel_polygon # all_annotations[j + 2].pixel_polygon

\* C3: a row's image_id is the 0-based list position of the image whose
\* model output produced the row, whatever the earlier images contributed
C3_ImageIdIsListPosition ==
    Returned =>
        \A j \in 1..Len(all_annotations) :
            LET r == all_annotations[j]
            IN  /\ r.image_id \in ImagePositions
                /\ r.image_id = emit_log[j].image
                /\ \E q \in InstancesOf(r.image_id) :
                       /\ Predictor(images_list[r.image_id + 1]).pred_classes[q + 1]
                              = r.class_id
                       /\ \E c \in 1..Len(RegionsOf(r.image_id, q)) :
                              r.pixel_polygon =
                                  stored_polygon(
                                      polygon_prep(RegionsOf(r.image_id, q)[c],
                                                   simplify_tolerance).polygon,
                                      flatten_arg)

\* an image without rows comes before an image with rows
C3_Witness ==
    /\ Returned
    /\ Len(all_annotations) >= 1
    /\ all_annotations[1].image_id >= 1
    /\ Len(Predictor(images_list[1]).pred_masks) >= 1

\* C4: assemble_coco_json completes for every table and mapping, and its
\* categories hold exactly one entry per class id of the table and no other
C4_CategoriesCoverEveryMapping ==
    /\ ~(pc = "raised" /\ error = "KeyError")
    /\ pc = "assembled" =>
           LET cats == coco_json.categories
               seen == {all_annotations[k].class_id : k \in 1..Len(all_annotations)}
           IN  /\ \A c \in seen : Cardinality({k \in 1..Len(cats) : cats[k].id = c}) = 1
               /\ \A k \in 1..Len(cats) : cats[k].id \in seen

\* C5 as stated: with a mapping, each category entry has exactly the
\* mapping's name and supercategory; without one, the name is the string of
\* the class id and the supercategory is not set
C5_NameExactlyAsMapped ==
    pc = "assembled" =>
        \A k \in 1..Len(coco_json.categories) :
            LET e == coco_json.categories[k]
            IN  IF categories.given
                THEN /\ e.name = categories.map[e.id].name
                     /\ e.supercategory = categories.map[e.id].supercategory
                ELSE /\ e.name = PyS(Digits[e.id + 1])
                     /\ e.supercategory = NotPassed

\* C5 amended: the entry's name is always a string: the mapping's name when
\* that is a string, its decimal form when it is a number; the supercategory
\* is the mapping's; without a mapping the name is the decimal form of the
\* class id and no supercategory is passed
C5_NameIsStringOfMapped ==
    pc = "assembled" =>
        \A k \in 1..Len(coco_json.categories) :
            LET e == coco_json.categories[k]
            IN  /\ e.name.t = "str"
                /\ IF categories.given
                   THEN LET m == categories.map[e.id]
                        IN  /\ m.name.t = "str" => e.name = m.name
                            /\ m.name.t = "int" => e.name.s = IntToStr(m.name.n)
                            /\ e.supercategory = m.supercategory
                   ELSE /\ e.name.s = Digits[e.id + 1]
                        /\ e.supercategory = NotPassed

\* a mapping with a numeric and a string name, both used
C5_Witness ==
    /\ pc = "assembled"
    /\ categories.given
    /\ \E j, k \in 1..Len(coco_json.categories) :
           /\ categories.map[coco_json.categories[j].id].name.t = "int"
           /\ categories.map[coco_json.categories[k].id].name.t = "str"

\* C6: the categories list is in strictly ascending class id order
C6_CategoriesAscending ==
    pc = "assembled" =>
        \A j, k \in 1..Len(coco_json.categories) :
            j < k => coco_json.categories[j].id < coco_json.categories[k].id

\* the table meets a larger class id before a smaller one
C6_Witness ==
    /\ pc = "assembled"
    /\ Len(coco_json.categories) >= 2
    /\ \E j, k \in 1..Len(all_annotations) :
           j < k /\ all_annotations[j].class_id > all_annotations[k].class_id

\* C7: for a contour of fewer than 3 points polygon_prep warns, returns the
\* contour as given and does not raise, for every tolerance >= 0
C7_DegenerateReturnedAsGiven ==
    (pc \in {"prep_returned", "prep_raised"}
        /\ Len(polygon_arg) < 3 /\ simplify_tolerance >= 0) =>
        /\ pc = "prep_returned"
        /\ prep_result = polygon_arg
        /\ Len(warnings_log) = 1

\* C8: an instance whose mask traces to no contour gives no row and exactly
\* one warning, and nothing else is lost: the run is not aborted and the
\* table has one row per contour of all the other instances
C8_EmptyInstanceSkipped ==
    /\ (pc = "raised" /\ error = "ValueError") => Len(images_list) = 0
    /\ pc = "instances" =>
           \A q \in 0..(i - 1) :
               Len(output.pred_masks[q + 1].regions) = 0 =>
                   /\ RowsFrom(image_index, q) = {}
                   /\ Cardinality({k \in 1..Len(warnings_log) :
                          warnings_log[k] =
                              [kind |-> "empty", image |-> image_index, inst |-> q]}) = 1
    /\ Returned =>
           /\ \A p \in ImagePositions : \A q \in InstancesOf(p) :
                  Len(RegionsOf(p, q)) = 0 =>
                      /\ RowsFrom(p, q) = {}
                      /\ Cardinality({k \in 1..Len(warnings_log) :
                             warnings_log[k] =
                                 [kind |-> "empty", image |-> p, inst |-> q]}) = 1
           /\ Len(warnings_log) =
                  Cardinality(UNION {{<<p, q>> : q \in {x \in InstancesOf(p) :
                                                          Len(RegionsOf(p, x)) = 0}} :
                                     p \in ImagePositions})
           /\ \A p \in ImagePositions : \A q \in InstancesOf(p) :
                  Cardinality({j \in 1..Len(all_annotations) : j \in RowsFrom(p, q)})
                      = Len(RegionsOf(p, q))

\* an empty instance between two instances with rows, and another image
\* with rows after it
C8_Witness ==
    /\ Returned
    /\ \E p \in ImagePositions :
           /\ \E q \in InstancesOf(p) :
                  /\ Len(RegionsOf(p, q)) = 0
                  /\ RowsFrom(p, q - 1) # {}
                  /\ RowsFrom(p, q + 1) # {}
           /\ \E j \in 1..Len(all_annotations) : all_annotations[j].image_id > p

\* C9: an instance whose mask traces to k >= 1 contours gives exactly k rows,
\* all with its class id and its image's id, with k distinct annot_ids
C9_OneRowPerContour ==
    Returned =>
        \A p \in ImagePositions : \A q \in InstancesOf(p) :
            LET k == Len(RegionsOf(p, q))
                rows == {j \in 1..Len(all_annotations) :
                            j <= Len(emit_log) /\ j \in RowsFrom(p, q)}
            IN  k >= 1 =>
                    /\ Cardinality(rows) = k
                    /\ Cardinality({all_annotations[j].annot_id : j \in rows}) = k
                    /\ \A j \in rows :
                           /\ all_annotations[j].image_id = p
                           /\ all_annotations[j].class_id =
                                  Predictor(images_list[p + 1]).pred_classes[q + 1]

\* a mask with two disjoint regions has given its two rows
C9_Witness ==
    /\ Returned
    /\ \E p \in ImagePositions : \E q \in InstancesOf(p) :
           /\ Len(RegionsOf(p, q)) = 2
           /\ Cardinality(RowsFrom(p, q)) = 2

\* C10: the rows hold flattened polygons when the caller's flatten setting is
\* true and nested polygons when it is false
C10_FlattenReachesRows ==
    Returned =>
        \A j \in 1..Len(all_annotations) :
            all_annotations[j].pixel_polygon =
                stored_polygon(polygon_prep(OriginContour(emit_log[j]),
                                            simplify_tolerance).polygon,
                               flatten)

\* the first list position (0-based) of an image whose tile call fails
FailingPositions ==
    {p \in 0..(Len(images_list) - 1) :
        images_list[p + 1] \in Unreadable \cup ModelFails}
FirstFailing == CHOOSE p \in FailingPositions : \A q \in FailingPositions : p <= q

\* C11: when reading the image or invoking the model fails at position k,
\* the call ends there with that error: no later image is processed, no
\* table is returned and nothing runs afterwards
C11_FailurePropagates ==
    FailingPositions # {} =>
        /\ pc \notin {"returned", "assembled"}
        /\ columns = << >>
        /\ image_index <= FirstFailing
        /\ Len(invocations) <= FirstFailing + 1
        /\ Len(invocations) = FirstFailing + 1 =>
               /\ pc = "raised"
               /\ error = (IF images_list[FirstFailing + 1] \in Unreadable
                           THEN "ImageReadFailure" ELSE "ModelInvocationFailure")
               /\ Len(all_annotations) = FirstFailing
               /\ ~ENABLED Next

\* an unreadable image after an image that gave rows and before another image
C11_Witness ==
    /\ pc = "raised"
    /\ error = "ImageReadFailure"
    /\ image_index >= 1
    /\ image_index + 1 < Len(images_list)
    /\ Len(emit_log) >= 1

\* C12: a ratio or tolerance outside its range makes the call fail before
\* anything is processed: no density is computed, no image is read, no
\* polygon is prepared
C12_OutOfRangeFailsFast ==
    /\ \A r \in Ratios : \A a, n \in 0..2 :
           (r < 0 \/ r > 10) =>
               /\ density_estimate_combined_area(r, a, n).raised
               /\ ~density_estimate_combined_area(r, a, n).computed
    /\ (simplify_tolerance < 0 \/ simplify_tolerance > 10) =>
           /\ Len(invocations) = 0
           /\ pc \notin {"instances", "returned", "assembled", "prep_returned"}

\* C13: every image_id of an annotation names exactly one entry of images:
\* images has one descriptor per input path, in input order, its id its
\* 0-based position, and the annotation's image_id is one of these ids
C13_ImageIdsResolve ==
    pc = "assembled" =>
        /\ Len(coco_json.images) = Len(images_list)
        /\ \A k \in 1..Len(images_list) :
               /\ coco_json.images[k].id = k - 1
               /\ coco_json.images[k].file_name = images_list[k]
        /\ \A a \in 1..Len(coco_json.annotations) :
               /\ coco_json.annotations[a].image_id \in 0..(Len(coco_json.images) - 1)
               /\ Cardinality({k \in 1..Len(coco_json.images) :
                      coco_json.images[k].id = coco_json.annotations[a].image_id}) = 1

\* the last of several images has annotations
C13_Witness ==
    /\ pc = "assembled"
    /\ Len(coco_json.images) >= 2
    /\ \E a \in 1..Len(coco_json.annotations) :
           coco_json.annotations[a].image_id = Len(coco_json.images) - 1

\* C14: a second call on the same image list returns a table with the same
\* annot_id and image_id in every row as the first call
C14_RepeatedRunSameIds ==
    (run = 2 /\ pc = "returned") =>
        /\ Len(all_annotations) = Len(previous.rows)
        /\ \A j \in 1..Len(all_annotations) :
               /\ all_annotations[j].annot_id = previous.rows[j].annot_id
               /\ all_annotations[j].image_id = previous.rows[j].image_id

\* the second call has returned rows of two images
C14_Witness ==
    /\ run = 2
    /\ pc = "returned"
    /\ Len(all_annotations) >= 2
    /\ all_annotations[1].image_id # all_annotations[Len(all_annotations)].image_id

\* C15: for a tolerance > 0 and a contour of at least 3 points, polygon_prep
\* returns no more points than it was given
C15_NoMorePointsThanGiven ==
    (pc = "prep_returned" /\ simplify_tolerance > 0 /\ Len(polygon_arg) >= 3) =>
        Len(prep_result) <= Len(polygon_arg)

\* C16: with tolerance 0 polygon_prep returns the contour it was given, point
\* for point, whatever the contour, and the rows of the table carry the
\* traced contours unchanged
C16_ZeroToleranceIsIdentity ==
    simplify_tolerance = 0 =>
        /\ pc # "prep_raised"
        /\ pc = "prep_returned" => prep_result = polygon_arg
        /\ pc = "returned" =>
               /\ Len(all_annotations) = Len(emit_log)
               /\ \A j \in 1..Len(all_annotations) :
                      all_annotations[j].pixel_polygon = OriginContour(emit_log[j])

\* a 4-point square came back as the same 4 points
C16_Witness ==
    /\ pc = "prep_returned"
    /\ simplify_tolerance = 0
    /\ Len(polygon_arg) = 4
    /\ Len(prep_result) = 4

\* number of contours traced in the image at list position p
ContoursOf(p) ==
    Cardinality(UNION {{<<q, c>> : c \in 1..Len(RegionsOf(p, q))} : q \in InstancesOf(p)})

\* C17: the predictor is invoked once per image, in list order, and the
\* buffer holds, whenever the next image is about to be taken or is being
\* processed, one complete frame for each image before it and nothing else
C17_OneCompleteBlockPerImage ==
    /\ Len(invocations) <= Len(images_list)
    /\ \A k \in 1..Len(invocations) : invocations[k] = images_list[k]
    /\ pc \in {"returned", "assembled"} => invocations = images_list
    /\ pc \in {"loop", "instances"} =>
           /\ Len(all_annotations) = image_index
           /\ Len(invocations) = image_index + (IF pc = "instances" THEN 1 ELSE 0)
           /\ \A k \in 1..Len(all_annotations) :
                  /\ Len(all_annotations[k]) = ContoursOf(k - 1)
                  /\ \A j \in 1..Len(all_annotations[k]) :
                         all_annotations[k][j].image_id = k - 1

\* two images with rows are in the buffer and a third is about to be taken
C17_Witness ==
    /\ pc = "loop"
    /\ image_index = 2
    /\ Len(images_list) = 3
    /\ Len(all_annotations[1]) >= 2
    /\ Len(all_annotations[2]) >= 1

\* the polygons appended so far for the image in hand, by origin
EmittedHere == SelectSeq(emit_log, LAMBDA e : e.image = image_index)

\* C18: the four lists of extract_output_annotations have equal length, the
\* entries at one index come from one instance, instances appear in
\* ascending index and an instance's polygons in tracing order
C18_ParallelLists ==
    pc = "instances" =>
        /\ Len(mask_arrays) = Len(polygons)
        /\ Len(bbox_list) = Len(polygons)
        /\ Len(labels_list) = Len(polygons)
        /\ Len(EmittedHere) = Len(polygons)
        /\ \A j \in 1..Len(polygons) :
               LET e == EmittedHere[j]
               IN  /\ e.inst < i
                   /\ mask_arrays[j] = output.pred_masks[e.inst + 1]
                   /\ bbox_list[j] = output.pred_boxes[e.inst + 1]
                   /\ labels_list[j] = output.pred_classes[e.inst + 1]
                   /\ polygons[j] =
                          stored_polygon(
                              polygon_prep(output.pred_masks[e.inst + 1].regions[e.contour],
                                           simplify_tolerance).polygon,
                              flatten_arg)
        /\ \A j, k \in 1..Len(polygons) :
               j < k =>
                   \/ EmittedHere[j].inst < EmittedHere[k].inst
                   \/ /\ EmittedHere[j].inst = EmittedHere[k].inst
                      /\ EmittedHere[j].contour < EmittedHere[k].contour

\* the loop is over for an image with a two-contour instance, an empty
\* instance and a one-contour instance
C18_Witness ==
    /\ pc = "instances"
    /\ i = 3
    /\ i = Len(output.pred_masks)
    /\ Len(polygons) = 3
    /\ labels_list[2] # labels_list[3]

FourColumns == <<"annot_id", "pixel_polygon", "image_id", "class_id">>

\* C19: a direct call with an empty list ends in the ValueError of the
\* concatenation and returns nothing; a non-empty list whose images give no
\* row returns an empty table with the four columns; the script stops on its
\* assertion, before a predictor exists, when it found no image
C19_EmptyListAndEmptyTable ==
    /\ Len(images_list) = 0 =>
           /\ pc \in {"main", "loop", "raised"}
           /\ columns = << >>
           /\ Len(invocations) = 0
           /\ pc = "raised" =>
                  error = (IF predictor_built THEN "ValueError" ELSE "AssertionError")
    /\ ~predictor_built =>
           /\ pc \in {"main", "raised", "prep_call", "prep_returned", "prep_raised"}
           /\ (pc = "raised" /\ error = "AssertionError") => Len(images_list) = 0
    /\ (pc = "raised" /\ error \in {"ValueError", "AssertionError"}) =>
           Len(images_list) = 0
    /\ pc = "returned" =>
           /\ columns = FourColumns
           /\ Len(emit_log) = 0 => all_annotations = << >>

\* several images, none of which gave a row
C19_Witness ==
    /\ pc = "returned"
    /\ Len(images_list) >= 2
    /\ all_annotations = << >>
    /\ Len(warnings_log) >= 1

====
